---- MODULE Spec2Model ----
(***************************************************************************)
(* Model of ludtwig's per-file pipeline (crates/ludtwig/src/process.rs):   *)
(* run_analysis and the autofix loop iteratively_apply_suggestions, and of *)
(* the position scanner get_line_and_column_of_subslice                    *)
(* (libs/twig/src/error.rs).                                               *)
(*                                                                         *)
(* A text is a sequence of one-character strings.  A byte range is a       *)
(* record [start, end] (half open).  A CheckSuggestion is a record         *)
(* [syntax_range, replace_with]; the pairs the loop works on are           *)
(* <<rule_name, suggestion>>.                                              *)
(***************************************************************************)
EXTENDS Integers, Sequences, FiniteSets, TLC

VARIABLES
    pc,                    \* position of run_analysis for the file
    fix,                   \* cli_context.fix
    active_rules,          \* the active rules, in run order
    original_file_content, \* what process_file read from disk
    disk,                  \* the file's content on disk
    file_context,          \* current_results.0 : source_code, tree_root, parse_errors
    rule_result_context,   \* current_results.1 : the result aggregate
    dirty,                 \* current_results.2
    iterations,            \* current_results.3
    i,                     \* the loop variable of `for i in 0..10`
    iter,                  \* locals of the last executed loop body
    ret,                   \* what iteratively_apply_suggestions returned
    result,                \* what run_analysis returned
    stdout,                \* lines printed by run_analysis
    diagnostics,           \* what produce_diagnostics was handed
    input,                 \* get_line_and_column_of_subslice: the full text
    offset,                \*   the sub-slice's byte offset in it
    overflow_checks,       \*   whether the build traps on integer overflow
    lc,                    \*   its outcome
    run_texts              \* history: the source_code of every current_results so far

vars == <<pc, fix, active_rules, original_file_content, disk, file_context,
          rule_result_context, dirty, iterations, i, iter, ret, result,
          stdout, diagnostics, input, offset, overflow_checks, lc, run_texts>>

procVars == <<pc, fix, active_rules, original_file_content, disk, file_context,
              rule_result_context, dirty, iterations, i, iter, ret, result,
              stdout, diagnostics, run_texts>>

lineVars == <<input, offset, overflow_checks, lc>>

-----------------------------------------------------------------------------
(* Bounds of the model *)

\* most suggestions the scripted rules of one run emit together
MaxSug == 3

\* longest run of offending characters in the texts of the pattern rules
MaxRun == 10

\* longest input of the position scanner
MaxInput == 5

\* the text that scripted rules are run on (and its prefixes)
ScriptText == <<"A", "b">>

RuleNames == {"A", "B", "C"}

-----------------------------------------------------------------------------
(* Sequence helpers *)

Last(s) == s[Len(s)]

Front(s) == SubSeq(s, 1, Len(s) - 1)

RECURSIVE Flatten(_)
Flatten(ss) == IF ss = <<>> THEN <<>> ELSE Head(ss) \o Flatten(Tail(ss))

RECURSIVE Repeat(_, _)
Repeat(c, n) == IF n = 0 THEN <<>> ELSE <<c>> \o Repeat(c, n - 1)

-----------------------------------------------------------------------------
(* ludtwig_parser::parse: the tree and the parse errors are functions of   *)
(* the text alone; the tree is lossless, it covers exactly the text.       *)

parse(text) == [green_node |-> <<"tree", text>>, errors |-> <<"errors", text>>]

tree_text(tree_root) == tree_root[2]

-----------------------------------------------------------------------------
(* Rules.  A rule is stateless: what it emits is a function of the tree.   *)

Range(s, e) == [start |-> s, end |-> e]

Suggestion(r, rep) == [syntax_range |-> r, replace_with |-> rep]

Occurrences(text, pat) == SelectSeq([k \in 1..Len(text) |-> k], LAMBDA k : text[k] = pat)

rule_check(rule, tree_root) ==
    LET text == tree_text(tree_root)
        occ  == Occurrences(text, rule.pat)
    IN  CASE rule.kind = "script" ->
                IF text = rule.on THEN rule.emits ELSE <<>>
          [] rule.kind = "first" ->
                IF occ = <<>> THEN <<>>
                ELSE <<Suggestion(Range(occ[1] - 1, occ[1]), rule.rep)>>
          [] rule.kind = "all" ->
                [k \in 1..Len(occ) |-> Suggestion(Range(occ[k] - 1, occ[k]), rule.rep)]
          [] rule.kind = "always" ->
                <<Suggestion(Range(0, 0), rule.rep)>>

\* run_rules: every active rule once, in list order, against the same tree
run_rules(rules, ctx) ==
    [k \in 1..Len(rules) |->
        [rule_name |-> rules[k].name,
         suggestions |-> rule_check(rules[k], ctx.tree_root)]]

\* get_rule_context_suggestions: all (rule, suggestion) pairs of the aggregate
get_rule_context_suggestions(rule_ctx) ==
    Flatten([k \in 1..Len(rule_ctx) |->
        [j \in 1..Len(rule_ctx[k].suggestions) |->
            <<rule_ctx[k].rule_name, rule_ctx[k].suggestions[j]>>]])

-----------------------------------------------------------------------------
(* TextRange::ordering, as the loop uses it to sort and to find conflicts: *)
(* Less when a ends at or before the start of b, Greater when b ends at or *)
(* before the start of a, Equal otherwise.                                 *)

ordering(a, b) ==
    IF a.end <= b.start THEN "Less"
    ELSE IF b.end <= a.start THEN "Greater"
    ELSE "Equal"

is_less(pa, pb) == ordering(pa[2].syntax_range, pb[2].syntax_range) = "Less"

(* slice::sort_by on a short slice is an insertion sort.  Which one depends *)
(* on the toolchain: one inserts each element into the sorted prefix to its *)
(* left, the other inserts each element into the sorted suffix to its       *)
(* right.  They agree whenever the comparison is a total order.             *)

RECURSIVE insert_tail(_, _)
insert_tail(sorted, e) ==
    IF sorted = <<>> \/ ~is_less(e, Last(sorted))
    THEN Append(sorted, e)
    ELSE Append(insert_tail(Front(sorted), e), Last(sorted))

RECURSIVE insertion_sort_shift_left(_)
insertion_sort_shift_left(v) ==
    IF v = <<>> THEN <<>>
    ELSE insert_tail(insertion_sort_shift_left(Front(v)), Last(v))

RECURSIVE insert_head(_, _)
insert_head(e, sorted) ==
    IF sorted = <<>> \/ ~is_less(Head(sorted), e)
    THEN <<e>> \o sorted
    ELSE <<Head(sorted)>> \o insert_head(e, Tail(sorted))

RECURSIVE insertion_sort_insert_head(_)
insertion_sort_insert_head(v) ==
    IF v = <<>> THEN <<>>
    ELSE insert_head(Head(v), insertion_sort_insert_head(Tail(v)))

\* the orders sort_by can leave the suggestions in
sort_by(v) == {insertion_sort_shift_left(v), insertion_sort_insert_head(v)}

-----------------------------------------------------------------------------
(* The conflict scan over adjacent pairs of the sorted suggestions.        *)

RECURSIVE scan_overlaps(_, _, _)
scan_overlaps(sorted, k, overlapping_rules) ==
    IF k >= Len(sorted)
    THEN [err |-> FALSE, overlapping_rules |-> overlapping_rules]
    ELSE IF ordering(sorted[k][2].syntax_range, sorted[k + 1][2].syntax_range) = "Equal"
         THEN IF sorted[k][1] = sorted[k + 1][1]
              THEN [err |-> TRUE, rule_name |-> sorted[k][1]]
              ELSE scan_overlaps(sorted, k + 1, overlapping_rules \cup {sorted[k + 1][1]})
         ELSE scan_overlaps(sorted, k + 1, overlapping_rules)

find_overlapping_rules(sorted) == scan_overlaps(sorted, 1, {})

\* the filter_map: drop every suggestion of a rule marked overlapping
filter_suggestions(sorted, overlapping_rules) ==
    LET kept == SelectSeq(sorted, LAMBDA p : p[1] \notin overlapping_rules)
    IN  [k \in 1..Len(kept) |-> kept[k][2]]

-----------------------------------------------------------------------------
(* apply_suggestions_to_text: splice in reverse order.  String::            *)
(* replace_range panics when the range ends beyond the string.  `done`      *)
(* lists the suggestions whose replace_range call has completed.            *)

replace_range(source_code, start, end, replace_with) ==
    SubSeq(source_code, 1, start) \o replace_with
        \o SubSeq(source_code, end + 1, Len(source_code))

RECURSIVE splice_from(_, _, _)
splice_from(suggestions, k, out) ==
    IF k = 0 \/ out.panicked THEN out
    ELSE LET r == suggestions[k].syntax_range
         IN  IF r.end > Len(out.text)
             THEN [out EXCEPT !.panicked = TRUE]
             ELSE splice_from(suggestions, k - 1,
                     [panicked |-> FALSE,
                      text |-> replace_range(out.text, r.start, r.end,
                                             suggestions[k].replace_with),
                      done |-> Append(out.done, suggestions[k])])

\* the splices done front to back, without the `.rev()`
RECURSIVE splice_forward(_, _, _)
splice_forward(suggestions, k, out) ==
    IF k > Len(suggestions) \/ out.panicked THEN out
    ELSE LET r == suggestions[k].syntax_range
         IN  IF r.end > Len(out.text)
             THEN [out EXCEPT !.panicked = TRUE]
             ELSE splice_forward(suggestions, k + 1,
                     [panicked |-> FALSE,
                      text |-> replace_range(out.text, r.start, r.end,
                                             suggestions[k].replace_with),
                      done |-> Append(out.done, suggestions[k])])

apply_suggestions_to_text_forward(suggestions, source_code) ==
    splice_forward(suggestions, 1,
                   [panicked |-> FALSE, text |-> source_code, done |-> <<>>])

apply_suggestions_to_text(suggestions, source_code) ==
    splice_from(suggestions, Len(suggestions),
                [panicked |-> FALSE, text |-> source_code, done |-> <<>>])

-----------------------------------------------------------------------------
(* The files and rule sets the model runs the pipeline on.                  *)

Ranges(n) == {r \in [start : 0..n, end : 0..n] : r.start <= r.end}

\* what a scripted rule replaces a range with: a same-length text, nothing,
\* or a longer text
ReplOf(name) ==
    CASE name = "A" -> <<"A">>
      [] name = "B" -> <<>>
      [] name = "C" -> <<"C", "C">>

ScriptTexts == {SubSeq(ScriptText, 1, n) : n \in 0..Len(ScriptText)}

\* a rule's suggestions are collected together: equal names are contiguous
Grouped(flat) ==
    \A a \in 1..Len(flat) : \A c \in a..Len(flat) :
        flat[a][1] = flat[c][1] => \A b \in a..c : flat[b][1] = flat[a][1]

FlatScripts(text, k) == {flat \in [1..k -> RuleNames \X Ranges(Len(text))] : Grouped(flat)}

RECURSIVE ScriptRules(_, _)
ScriptRules(flat, text) ==
    IF flat = <<>> THEN <<>>
    ELSE LET name == flat[1][1]
             mine == SelectSeq(flat, LAMBDA p : p[1] = name)
             rest == SelectSeq(flat, LAMBDA p : p[1] # name)
         IN  <<[name |-> name, kind |-> "script", on |-> text,
                emits |-> [k \in 1..Len(mine) |-> Suggestion(mine[k][2], ReplOf(name))]]>>
             \o ScriptRules(rest, text)

PatternTexts == {Repeat("A", n) : n \in 0..MaxRun}

PatternRuleSets ==
    { <<[name |-> "A", kind |-> "first", pat |-> "A", rep |-> <<"a">>]>>,
      <<[name |-> "A", kind |-> "all", pat |-> "A", rep |-> <<"a">>]>>,
      <<[name |-> "A", kind |-> "all", pat |-> "A", rep |-> <<"A">>]>>,
      <<[name |-> "A", kind |-> "always", rep |-> <<"x">>]>>,
      <<[name |-> "A", kind |-> "first", pat |-> "A", rep |-> <<"a">>],
        [name |-> "B", kind |-> "first", pat |-> "a", rep |-> <<"A">>]>> }

Texts == ScriptTexts \cup PatternTexts

-----------------------------------------------------------------------------
(* The state machine of process_file / run_analysis for one file.           *)

\* the loop written `for i in 0..9`
in_for_range_short(n) == n \in 0..(9 - 1)

\* `for i in 0..10`: the values the loop variable takes
in_for_range(n) == n \in 0..(10 - 1)

\* the bound checked one pass too late
max_apply_iteration_late(n) == n >= 10

\* `if i >= 9`: the pass that gives up
max_apply_iteration(n) == n >= 9

\* the dirty flag starting out set
initial_results_dirty(ctx, rule_ctx) ==
    [file_context |-> ctx, rule_result_context |-> rule_ctx, dirty |-> TRUE, iterations |-> 0]

\* `let mut current_results = (file_context, rule_result_context, false, 0)`
initial_results(ctx, rule_ctx) ==
    [file_context |-> ctx, rule_result_context |-> rule_ctx, dirty |-> FALSE, iterations |-> 0]

\* `parse_errors` left to the struct update `..current_results.0`
new_file_context_stale_errors(source_code, new_parse, old) ==
    [source_code |-> source_code,
     tree_root |-> new_parse.green_node,
     parse_errors |-> old.parse_errors]

\* `FileContext { source_code, tree_root, parse_errors: new_parse.errors, ..current_results.0 }`
new_file_context(source_code, new_parse, old) ==
    [source_code |-> source_code,
     tree_root |-> new_parse.green_node,
     parse_errors |-> new_parse.errors]

NoIter == [outcome |-> "none"]

NoRet == [kind |-> "none"]

LineIdle == [state |-> "idle"]

InitLineIdle ==
    /\ input = <<>>
    /\ offset = 0
    /\ overflow_checks = FALSE
    /\ lc = LineIdle

\* process_file has read the file; nothing of run_analysis has run yet
Init ==
    /\ original_file_content \in Texts
    /\ disk = original_file_content
    /\ active_rules = <<>>
    /\ fix = FALSE
    /\ pc = "start"
    /\ file_context = [source_code |-> <<>>, tree_root |-> <<>>, parse_errors |-> <<>>]
    /\ rule_result_context = <<>>
    /\ dirty = FALSE
    /\ iterations = 0
    /\ i = 0
    /\ iter = NoIter
    /\ ret = NoRet
    /\ result = NoRet
    /\ stdout = <<>>
    /\ diagnostics = "none"
    /\ run_texts = <<>>
    /\ InitLineIdle

\* run_analysis up to the autofix decision, for the rule set `rules` that
\* get_active_rules yields and the flag `f` of cli_context.fix: parse, build
\* the file context, run all the rules; iteratively_apply_suggestions starts
\* with (file_context, rule_result_context, false, 0)
RunAnalysisWith(rules, f) ==
    /\ pc = "start"
    /\ active_rules' = rules
    /\ fix' = f
    /\ LET p   == parse(original_file_content)
           ctx == [source_code |-> original_file_content,
                   tree_root |-> p.green_node,
                   parse_errors |-> p.errors]
           cur == initial_results(ctx, run_rules(rules, ctx))
       IN  /\ file_context' = cur.file_context
           /\ rule_result_context' = cur.rule_result_context
           /\ dirty' = cur.dirty
           /\ iterations' = cur.iterations
    /\ i' = 0
    /\ run_texts' = <<original_file_content>>
    /\ pc' = IF f THEN "loop" ELSE "diagnostics"
    /\ UNCHANGED <<original_file_content, disk, iter, ret,
                   result, stdout, diagnostics, lineVars>>

RunAnalysis ==
    /\ pc = "start"
    /\ \E f \in BOOLEAN :
        \/ /\ original_file_content \in ScriptTexts
           /\ \E k \in 0..MaxSug : \E flat \in FlatScripts(original_file_content, k) :
                 RunAnalysisWith(ScriptRules(flat, original_file_content), f)
        \/ /\ original_file_content \in PatternTexts
           /\ \E rules \in PatternRuleSets : RunAnalysisWith(rules, f)

\* `if i >= 9 { return Err(MaxApplyIteration) }`
LoopMaxApplyIteration ==
    /\ pc = "loop"
    /\ in_for_range(i)
    /\ max_apply_iteration(i)
    /\ ret' = [kind |-> "Err", error |-> "MaxApplyIteration"]
    /\ pc' = "returned"
    /\ UNCHANGED <<fix, active_rules, original_file_content, disk, file_context,
                   rule_result_context, dirty, iterations, i, iter, result,
                   stdout, diagnostics, run_texts, lineVars>>

\* `if suggestions.is_empty() { break; }`, or the range of the for loop is
\* used up; then `Ok(current_results)`
LoopConverged ==
    /\ pc = "loop"
    /\ \/ ~in_for_range(i)
       \/ /\ ~max_apply_iteration(i)
          /\ get_rule_context_suggestions(rule_result_context) = <<>>
    /\ ret' = [kind |-> "Ok", file_context |-> file_context,
               rule_result_context |-> rule_result_context,
               dirty |-> dirty, iterations |-> iterations]
    /\ pc' = "returned"
    /\ UNCHANGED <<fix, active_rules, original_file_content, disk, file_context,
                   rule_result_context, dirty, iterations, i, iter, result,
                   stdout, diagnostics, run_texts, lineVars>>

\* the conflict scan meets two adjacent suggestions of one rule that compare Equal
LoopSelfOverlap ==
    /\ pc = "loop"
    /\ in_for_range(i)
    /\ ~max_apply_iteration(i)
    /\ LET suggestions == get_rule_context_suggestions(rule_result_context)
       IN  /\ suggestions # <<>>
           /\ \E sorted \in sort_by(suggestions) :
                LET scan == find_overlapping_rules(sorted)
                IN  /\ scan.err
                    /\ ret' = [kind |-> "Err",
                               error |-> "OverlappingSuggestionInSingleRule",
                               rule_name |-> scan.rule_name]
                    /\ iter' = [outcome |-> "self_overlap",
                                text_before |-> file_context.source_code,
                                collected |-> suggestions,
                                sorted |-> sorted]
    /\ pc' = "returned"
    /\ UNCHANGED <<fix, active_rules, original_file_content, disk, file_context,
                   rule_result_context, dirty, iterations, i, result,
                   stdout, diagnostics, run_texts, lineVars>>

\* one full pass of the loop body: sort, scan, filter, splice, re-parse, re-run
LoopRewrite ==
    /\ pc = "loop"
    /\ in_for_range(i)
    /\ ~max_apply_iteration(i)
    /\ LET suggestions == get_rule_context_suggestions(rule_result_context)
       IN  /\ suggestions # <<>>
           /\ \E sorted \in sort_by(suggestions) :
                LET scan     == find_overlapping_rules(sorted)
                    kept     == filter_suggestions(sorted, scan.overlapping_rules)
                    spliced  == apply_suggestions_to_text(kept, file_context.source_code)
                    ctx      == new_file_context(spliced.text, parse(spliced.text),
                                                 file_context)
                IN  /\ ~scan.err
                    /\ ~spliced.panicked
                    /\ file_context' = ctx
                    /\ rule_result_context' = run_rules(active_rules, ctx)
                    /\ iter' = [outcome |-> "rewrite",
                                text_before |-> file_context.source_code,
                                collected |-> suggestions,
                                sorted |-> sorted,
                                overlapping_rules |-> scan.overlapping_rules,
                                applied |-> kept,
                                spliced |-> spliced.done]
    /\ dirty' = TRUE
    /\ iterations' = iterations + 1
    /\ i' = i + 1
    /\ run_texts' = Append(run_texts, file_context'.source_code)
    /\ UNCHANGED <<pc, fix, active_rules, original_file_content, disk, ret,
                   result, stdout, diagnostics, lineVars>>

\* a splice whose range ends beyond the text spliced so far: replace_range panics
LoopPanic ==
    /\ pc = "loop"
    /\ in_for_range(i)
    /\ ~max_apply_iteration(i)
    /\ LET suggestions == get_rule_context_suggestions(rule_result_context)
       IN  /\ suggestions # <<>>
           /\ \E sorted \in sort_by(suggestions) :
                LET scan     == find_overlapping_rules(sorted)
                    kept     == filter_suggestions(sorted, scan.overlapping_rules)
                    spliced  == apply_suggestions_to_text(kept, file_context.source_code)
                IN  /\ ~scan.err
                    /\ spliced.panicked
                    /\ iter' = [outcome |-> "panic",
                                text_before |-> file_context.source_code,
                                collected |-> suggestions,
                                sorted |-> sorted,
                                overlapping_rules |-> scan.overlapping_rules,
                                applied |-> kept,
                                spliced |-> spliced.done]
    /\ dirty' = TRUE
    /\ pc' = "panicked"
    /\ UNCHANGED <<fix, active_rules, original_file_content, disk, file_context,
                   rule_result_context, iterations, i, ret, result,
                   stdout, diagnostics, run_texts, lineVars>>

\* the text written back before the loop's error is looked at
ReturnLoopErrorAfterWrite ==
    /\ pc = "returned"
    /\ ret.kind = "Err"
    /\ disk' = file_context.source_code
    /\ result' = ret
    /\ pc' = "done"
    /\ UNCHANGED <<fix, active_rules, original_file_content, file_context,
                   rule_result_context, dirty, iterations, i, iter, ret,
                   stdout, diagnostics, run_texts, lineVars>>

\* `Err(e) => return Err(e)`
ReturnLoopError ==
    /\ pc = "returned"
    /\ ret.kind = "Err"
    /\ result' = ret
    /\ pc' = "done"
    /\ UNCHANGED <<fix, active_rules, original_file_content, disk, file_context,
                   rule_result_context, dirty, iterations, i, iter, ret,
                   stdout, diagnostics, run_texts, lineVars>>

\* `if dirty { fs::write(..); println!("fixed ..") }`; the write can fail
WriteFixed ==
    /\ pc = "returned"
    /\ ret.kind = "Ok"
    /\ ret.dirty
    /\ \E written \in BOOLEAN :
          IF written
          THEN /\ disk' = ret.file_context.source_code
               /\ stdout' = Append(stdout, [fixed |-> ret.iterations])
               /\ pc' = "diagnostics"
               /\ result' = result
          ELSE /\ result' = [kind |-> "Err", error |-> "FileWrite"]
               /\ pc' = "done"
               /\ UNCHANGED <<disk, stdout>>
    /\ UNCHANGED <<fix, active_rules, original_file_content, file_context,
                   rule_result_context, dirty, iterations, i, iter, ret,
                   diagnostics, run_texts, lineVars>>

\* the loop returned Ok with dirty = false: nothing to write
SkipWrite ==
    /\ pc = "returned"
    /\ ret.kind = "Ok"
    /\ ~ret.dirty
    /\ pc' = "diagnostics"
    /\ UNCHANGED <<fix, active_rules, original_file_content, disk, file_context,
                   rule_result_context, dirty, iterations, i, iter, ret, result,
                   stdout, diagnostics, run_texts, lineVars>>

\* produce_diagnostics on the final file context and aggregate, then Ok(())
ProduceDiagnostics ==
    /\ pc = "diagnostics"
    /\ diagnostics' = [file_context |-> file_context,
                       rule_result_context |-> rule_result_context]
    /\ result' = [kind |-> "Ok"]
    /\ pc' = "done"
    /\ UNCHANGED <<fix, active_rules, original_file_content, disk, file_context,
                   rule_result_context, dirty, iterations, i, iter, ret,
                   stdout, run_texts, lineVars>>

Next ==
    \/ RunAnalysis
    \/ LoopMaxApplyIteration
    \/ LoopConverged
    \/ LoopSelfOverlap
    \/ LoopRewrite
    \/ LoopPanic
    \/ ReturnLoopError
    \/ WriteFixed
    \/ SkipWrite
    \/ ProduceDiagnostics

Spec == Init /\ [][Next]_vars

-----------------------------------------------------------------------------
(* get_line_and_column_of_subslice (libs/twig/src/error.rs).                *)

Bytes == {"a", "\n", "\r"}

is_line_break(byte) == byte = "\r" \/ byte = "\n"

\* the for loop over input.bytes().enumerate(), from index idx on
RECURSIVE scan_bytes(_, _, _, _)
scan_bytes(inp, off, idx, st) ==
    IF idx >= Len(inp) THEN st
    ELSE LET s1 == [st EXCEPT !.byte_number = idx]
             s2 == [s1 EXCEPT !.lines = @ + 1, !.last_line_end = idx + 1]
             s3 == [s2 EXCEPT !.last_line_start = s2.last_line_end]
         IN  IF is_line_break(inp[idx + 1])
             THEN IF s2.found
                  THEN s2
                  ELSE scan_bytes(inp, off, idx + 1, [s3 EXCEPT !.found = (idx = off)])
             ELSE scan_bytes(inp, off, idx + 1, [s1 EXCEPT !.found = @ \/ (idx = off)])

\* usize arithmetic is modular; every modulus that is a power of two gives
\* the same column for the differences the scan can produce
UsizeModulus == 2^30

\* `offset - last_line_start + 1`: a build with overflow checks panics when
\* the subtraction underflows, a build without them wraps around
get_line_and_column_of_subslice(inp, off, checks) ==
    LET st  == scan_bytes(inp, off, 0,
                   [last_line_start |-> 0, last_line_end |-> 0, found |-> FALSE,
                    lines |-> 1, byte_number |-> 0])
        lle == IF st.last_line_start = st.last_line_end
               THEN st.byte_number + 1
               ELSE st.last_line_end - 1
    IN  IF st.last_line_start > lle \/ lle > Len(inp)
        THEN [state |-> "panicked", at |-> "slice"]
        ELSE IF off < st.last_line_start /\ checks
        THEN [state |-> "panicked", at |-> "column"]
        ELSE [state |-> "returned",
              lines |-> st.lines,
              column |-> (((off - st.last_line_start) % UsizeModulus) + 1) % UsizeModulus,
              last_line |-> SubSeq(inp, st.last_line_start + 1, lle)]

InitProcIdle ==
    /\ pc = "idle"
    /\ fix = FALSE
    /\ active_rules = <<>>
    /\ original_file_content = <<>>
    /\ disk = <<>>
    /\ file_context = [source_code |-> <<>>, tree_root |-> <<>>, parse_errors |-> <<>>]
    /\ rule_result_context = <<>>
    /\ dirty = FALSE
    /\ iterations = 0
    /\ i = 0
    /\ iter = NoIter
    /\ ret = NoRet
    /\ result = NoRet
    /\ stdout = <<>>
    /\ diagnostics = "none"
    /\ run_texts = <<>>

\* a parse error's slice lies in the input: subslice_offset yields 0..len
InitLine ==
    /\ input \in UNION {[1..n -> Bytes] : n \in 0..MaxInput}
    /\ offset \in 0..Len(input)
    /\ overflow_checks \in BOOLEAN
    /\ lc = LineIdle
    /\ InitProcIdle

GetLineAndColumn ==
    /\ lc = LineIdle
    /\ lc' = get_line_and_column_of_subslice(input, offset, overflow_checks)
    /\ UNCHANGED <<input, offset, overflow_checks, procVars>>

NextLine == GetLineAndColumn

SpecLine == InitLine /\ [][NextLine]_vars

-----------------------------------------------------------------------------
(* Properties *)

Returned == pc \in {"returned", "diagnostics", "done"} /\ ret.kind # "none"

CurrentSuggestions == get_rule_context_suggestions(rule_result_context)

ErrMaxApplyIteration == [kind |-> "Err", error |-> "MaxApplyIteration"]

\* C1: a run whose k-th rewrite (0 <= k <= 9) produced a text on which the
\* rules propose nothing returns Ok with iteration count k and that text, and
\* MaxApplyIteration is returned only when suggestions remain after the 9th
\* rewrite, so that a 10th rewrite would be needed.
C1_UpToNineRewrites ==
    /\ (Returned /\ CurrentSuggestions = <<>> /\ iterations <= 9)
          => /\ ret.kind = "Ok"
             /\ ret.iterations = iterations
             /\ ret.file_context.source_code = file_context.source_code
    /\ (Returned /\ ret = ErrMaxApplyIteration)
          => (iterations = 9 /\ CurrentSuggestions # <<>>)

AlwaysProposing ==
    /\ fix
    /\ \E k \in 1..Len(active_rules) : active_rules[k].kind = "always"

\* C4: no run performs a 10th rewrite, and with a rule that proposes a
\* suggestion on every text the loop keeps going until it has performed
\* exactly 9 rewrites and then returns Err(MaxApplyIteration), which
\* run_analysis returns.
C4_BoundEnforced ==
    /\ iterations <= 9
    /\ ret = ErrMaxApplyIteration => iterations = 9
    /\ AlwaysProposing =>
          /\ pc \in {"loop", "returned", "done"}
          /\ pc = "loop" => (CurrentSuggestions # <<>> /\ ENABLED Next)
          /\ pc = "returned" => ENABLED Next
          /\ pc \in {"returned", "done"} => (ret = ErrMaxApplyIteration /\ iterations = 9)
          /\ pc = "done" => result = ErrMaxApplyIteration

C4_Witness ==
    /\ AlwaysProposing
    /\ pc = "done"
    /\ result = ErrMaxApplyIteration
    /\ iterations = 9
    /\ Len(file_context.source_code) = Len(original_file_content) + 9

\* C5: when the autofix loop ended with an error, run_analysis returns that
\* error, the file on disk holds the original text, and neither the "fixed"
\* message nor diagnostics were produced.
C5_ErrorLeavesFile ==
    (Returned /\ ret.kind = "Err")
        => /\ disk = original_file_content
           /\ stdout = <<>>
           /\ diagnostics = "none"
           /\ pc \in {"returned", "done"}
           /\ pc = "done" => result = ret

C5_Witness ==
    /\ pc = "done"
    /\ result.kind = "Err"
    /\ result.error \in {"MaxApplyIteration", "OverlappingSuggestionInSingleRule"}
    /\ dirty
    /\ file_context.source_code # original_file_content
    /\ disk = original_file_content

FirstRunSuggestions ==
    get_rule_context_suggestions(
        run_rules(active_rules,
                  [source_code |-> original_file_content,
                   tree_root |-> parse(original_file_content).green_node,
                   parse_errors |-> parse(original_file_content).errors]))

\* C7: in autofix mode, when the first rule run yields no suggestion, the
\* loop returns Ok with the input text, dirty = false and iteration count 0,
\* and run_analysis neither writes the file nor prints the "fixed" message.
C7_NoSuggestionNoChange ==
    (fix /\ pc \in {"returned", "diagnostics", "done"} /\ FirstRunSuggestions = <<>>)
        => /\ ret.kind = "Ok"
           /\ ret.file_context.source_code = original_file_content
           /\ ret.dirty = FALSE
           /\ ret.iterations = 0
           /\ disk = original_file_content
           /\ stdout = <<>>
           /\ pc = "done" => result = [kind |-> "Ok"]

C7_Witness ==
    /\ fix
    /\ pc = "done"
    /\ FirstRunSuggestions = <<>>
    /\ original_file_content # <<>>
    /\ result = [kind |-> "Ok"]
    /\ disk = original_file_content

\* C8: when the loop returns Ok, the returned aggregate holds zero
\* suggestions, the returned tree and parse errors are those of the returned
\* text, and the aggregate is what the rules yield on the returned context.
C8_OkIsConverged ==
    ret.kind = "Ok"
        => /\ get_rule_context_suggestions(ret.rule_result_context) = <<>>
           /\ ret.file_context.tree_root = parse(ret.file_context.source_code).green_node
           /\ ret.file_context.parse_errors = parse(ret.file_context.source_code).errors
           /\ ret.rule_result_context = run_rules(active_rules, ret.file_context)

C8_Witness ==
    /\ ret.kind = "Ok"
    /\ ret.iterations >= 2
    /\ ret.file_context.source_code # original_file_content

-----------------------------------------------------------------------------
(* Properties of one pass of the loop body *)

IterRan == iter.outcome \in {"rewrite", "panic", "self_overlap"}

IterApplied == iter.outcome \in {"rewrite", "panic"}

SameRange(r1, r2) == r1.start = r2.start /\ r1.end = r2.end

\* half-open ranges are disjoint when one ends at or before the start of the other
Disjoint(r1, r2) == r1.end <= r2.start \/ r2.end <= r1.start

\* the ranges have a byte in common
SharesByte(r1, r2) ==
    /\ r1.start < r1.end
    /\ r2.start < r2.end
    /\ r1.start < r2.end
    /\ r2.start < r1.end

PairwiseDisjoint(pairs) ==
    \A a \in 1..Len(pairs) : \A b \in (a + 1)..Len(pairs) :
        Disjoint(pairs[a][2].syntax_range, pairs[b][2].syntax_range)

Count(seq, x) == Cardinality({k \in 1..Len(seq) : seq[k] = x})

\* the texts that replace every range of `pairs` in `text` at once, reading
\* `text` from position p on; insertions at one position may come in any order
RECURSIVE simultaneous(_, _, _, _)
simultaneous(text, pairs, todo, p) ==
    LET inserts  == {j \in todo : pairs[j][2].syntax_range = Range(p, p)}
        replaces == {j \in todo : /\ pairs[j][2].syntax_range.start = p
                                  /\ pairs[j][2].syntax_range.end > p}
    IN  IF inserts # {}
        THEN UNION {{pairs[j][2].replace_with \o r :
                        r \in simultaneous(text, pairs, todo \ {j}, p)} : j \in inserts}
        ELSE IF replaces # {}
        THEN UNION {{pairs[j][2].replace_with \o r :
                        r \in simultaneous(text, pairs, todo \ {j},
                                           pairs[j][2].syntax_range.end)} : j \in replaces}
        ELSE IF p < Len(text)
        THEN {<<text[p + 1]>> \o r : r \in simultaneous(text, pairs, todo, p + 1)}
        ELSE IF todo = {} THEN {<<>>} ELSE {}

\* C2: in a pass that applies suggestions, of two suggestions of different
\* rules with an identical range exactly one is applied, the one earlier in
\* the sorted list, and the rule of the later one is marked overlapping.
C2_IdenticalRangeOneApplied ==
    IterApplied =>
        \A a \in 1..Len(iter.sorted) : \A b \in (a + 1)..Len(iter.sorted) :
            (/\ iter.sorted[a][1] # iter.sorted[b][1]
             /\ SameRange(iter.sorted[a][2].syntax_range, iter.sorted[b][2].syntax_range))
                => /\ iter.sorted[a][1] \notin iter.overlapping_rules
                   /\ iter.sorted[b][1] \in iter.overlapping_rules

\* C3: when the collected suggestions hold two suggestions of one rule with
\* an identical range, the loop returns Err(OverlappingSuggestionInSingleRule)
\* naming that rule.
C3_SelfOverlapIsError ==
    IterRan =>
        \A a \in 1..Len(iter.collected) : \A b \in (a + 1)..Len(iter.collected) :
            (/\ iter.collected[a][1] = iter.collected[b][1]
             /\ SameRange(iter.collected[a][2].syntax_range,
                          iter.collected[b][2].syntax_range))
                => /\ iter.outcome = "self_overlap"
                   /\ ret.kind = "Err"
                   /\ ret.error = "OverlappingSuggestionInSingleRule"
                   /\ ret.rule_name = iter.collected[a][1]

\* C6: when the suggestions collected in one pass have pairwise disjoint
\* ranges (touching ranges included), the pass applies every one of them, marks
\* no rule overlapping, and the new text is the old text with every range
\* replaced by its replacement at once.
C6_DisjointAllApplied ==
    (IterRan /\ PairwiseDisjoint(iter.collected))
        => /\ iter.outcome = "rewrite"
           /\ iter.overlapping_rules = {}
           /\ Len(iter.applied) = Len(iter.collected)
           /\ \A k \in 1..Len(iter.collected) :
                 Count(iter.applied, iter.collected[k][2])
                     = Count([j \in 1..Len(iter.collected) |-> iter.collected[j][2]],
                             iter.collected[k][2])
           /\ file_context.source_code
                 \in simultaneous(iter.text_before, iter.collected,
                                  1..Len(iter.collected), 0)

C6_Witness ==
    /\ iter.outcome = "rewrite"
    /\ PairwiseDisjoint(iter.collected)
    /\ Len(iter.collected) >= 3
    /\ \E a, b \in 1..Len(iter.collected) :
          /\ a < b
          /\ iter.collected[a][1] # iter.collected[b][1]
          /\ iter.collected[b][2].syntax_range.start < iter.collected[b][2].syntax_range.end
          /\ iter.collected[b][2].syntax_range.end = iter.collected[a][2].syntax_range.start
          /\ iter.collected[a][2].syntax_range.start < iter.collected[a][2].syntax_range.end
    /\ Len(file_context.source_code) # Len(iter.text_before)

\* C10: in every pass the suggestions that survive the conflict scan and the
\* filter have pairwise non-overlapping ranges: no two of them have a byte
\* in common.
C10_SurvivorsDoNotOverlap ==
    IterApplied =>
        \A a \in 1..Len(iter.applied) : \A b \in (a + 1)..Len(iter.applied) :
            ~SharesByte(iter.applied[a].syntax_range, iter.applied[b].syntax_range)

-----------------------------------------------------------------------------
(* Properties of the position scanner *)

BreaksBefore(inp, off) == {k \in 1..off : is_line_break(inp[k])}

LineStartOf(inp, off) ==
    IF BreaksBefore(inp, off) = {} THEN 0
    ELSE CHOOSE k \in BreaksBefore(inp, off) : \A j \in BreaksBefore(inp, off) : j <= k

LineEndOf(inp, off) ==
    LET from   == LineStartOf(inp, off)
        breaks == {k \in (from + 1)..Len(inp) : is_line_break(inp[k])}
    IN  IF breaks = {} THEN Len(inp)
        ELSE (CHOOSE k \in breaks : \A j \in breaks : k <= j) - 1

\* C9: for every offset inside the input the scanner returns the 1-based line
\* number (one plus the number of line separators before the offset), the
\* 1-based column of the offset in its line, and the text of that line
\* without its terminator.
C9_LineAndColumn ==
    (lc # LineIdle /\ offset < Len(input))
        => lc = [state |-> "returned",
                 lines |-> 1 + Cardinality(BreaksBefore(input, offset)),
                 column |-> offset - LineStartOf(input, offset) + 1,
                 last_line |-> SubSeq(input, LineStartOf(input, offset) + 1,
                                      LineEndOf(input, offset))]

-----------------------------------------------------------------------------
(* The filter of one pass.                                                  *)

\* the suggestions of `pairs` (rule name, suggestion), in order
SuggestionsOf(pairs) == [k \in 1..Len(pairs) |-> pairs[k][2]]

\* the pairs of the rules that were not marked overlapping
Unmarked(pairs, overlapping_rules) ==
    SelectSeq(pairs, LAMBDA p : p[1] \notin overlapping_rules)

\* the filter alone: what is handed to apply_suggestions_to_text is exactly
\* the suggestions of the rules not marked, in sorted order
FilterKeepsUnmarked ==
    IterApplied =>
        iter.applied = SuggestionsOf(Unmarked(iter.sorted, iter.overlapping_rules))

\* C11: in a pass whose conflict scan passed, no suggestion of a rule marked
\* overlapping is spliced into the text, not even one whose range conflicts
\* with nothing, and every suggestion of a rule not marked is spliced in
C11_MarkedDroppedOthersApplied ==
    IterApplied =>
        /\ \A k \in 1..Len(iter.collected) :
              iter.collected[k][1] \in iter.overlapping_rules
                  => Count(iter.spliced, iter.collected[k][2]) = 0
        /\ \A k \in 1..Len(iter.collected) :
              iter.collected[k][1] \notin iter.overlapping_rules
                  => Count(iter.spliced, iter.collected[k][2])
                       = Count(SuggestionsOf(Unmarked(iter.collected,
                                                      iter.overlapping_rules)),
                               iter.collected[k][2])

\* a pass where a marked rule lost a suggestion that conflicts with nothing
MarkedRuleLosesFreeSuggestion ==
    /\ IterApplied
    /\ iter.outcome = "rewrite"
    /\ \E k \in 1..Len(iter.sorted) :
          /\ iter.sorted[k][1] \in iter.overlapping_rules
          /\ \A j \in 1..Len(iter.sorted) :
                j # k => Disjoint(iter.sorted[j][2].syntax_range,
                                  iter.sorted[k][2].syntax_range)

-----------------------------------------------------------------------------
(* The texts of one run.                                                    *)

PairwiseDistinct(seq) ==
    \A a \in 1..Len(seq) : \A b \in (a + 1)..Len(seq) : seq[a] # seq[b]

\* some pass of the run has rewritten the text to itself
Stalled ==
    \E k \in 1..(Len(run_texts) - 1) : run_texts[k] = run_texts[k + 1]

\* the loop of this run is over, whichever way it ended
LoopEnded == pc \in {"returned", "diagnostics", "done", "panicked"} /\ fix

\* C12: when iteratively_apply_suggestions returns Ok with iteration count
\* k, dirty is (k > 0) and the k + 1 texts of the run, the original and the
\* result of every rewrite, are pairwise distinct; a text written to disk
\* differs from the original; and a run with a pass that left the text as it
\* was ends in MaxApplyIteration and in nothing else
C12_OkRunTextsDistinct ==
    /\ ret.kind = "Ok" =>
          /\ ret.dirty = (ret.iterations > 0)
          /\ Len(run_texts) = ret.iterations + 1
          /\ run_texts[1] = original_file_content
          /\ Last(run_texts) = ret.file_context.source_code
          /\ PairwiseDistinct(run_texts)
    /\ stdout # <<>> => disk # original_file_content
    /\ (Stalled /\ LoopEnded) => ret = ErrMaxApplyIteration

\* a run of two or more rewrites has returned Ok and its text is on disk
C12_Witness ==
    /\ ret.kind = "Ok"
    /\ ret.iterations >= 2
    /\ stdout # <<>>
    /\ disk = ret.file_context.source_code

====
